---- MODULE Spec2Model ----
(***************************************************************************)
(* Model of streamlit_app.py: the interview session handlers of main(),    *)
(* extract_resume_details and match_resume_to_roles.                       *)
(*                                                                         *)
(* A text is a sequence of one-character strings, so that str.strip,       *)
(* str.lower, str.startswith, str.split and str.join are computed and not  *)
(* assumed.  None is a value distinct from every text.                     *)
(***************************************************************************)
EXTENDS Integers, Sequences, FiniteSets, TLC

VARIABLES
    role,               \* st.session_state.role
    conversation,       \* st.session_state.conversation
    transcripts,        \* st.session_state.transcripts
    current_question,   \* st.session_state.current_question
    lastOp,             \* which button handler ran last: "none", "start", "submit"
    selected_role,      \* value of the role selectbox at the last Start click
    asked,              \* the list assembled at line 207 by the last effective Start
    answer,             \* value of the answer text_area at the last Submit click
    text,               \* extract_resume_details: argument
    lines,              \*   text.split("\n")
    idx,                \*   position of the for loop over lines
    current_section,    \*   current_section
    extracted_info,     \*   extracted_info
    summary,            \*   return value
    epc,                \*   "call" | "scan" | "done" | "idle"
    job_df,             \* match_resume_to_roles: argument job_df
    resume_text,        \*   argument resume_text (its terms after tokenisation)
    top_n,              \*   argument top_n
    similarity_scores,  \*   similarity_scores
    top_indices,        \*   top_indices
    matched_roles,      \*   return value
    rpc                 \*   "call" | "scored" | "done" | "raised" | "idle"

sessionVars == <<role, conversation, transcripts, current_question,
                 lastOp, selected_role, asked, answer>>
extractVars == <<text, lines, idx, current_section, extracted_info, summary, epc>>
rankVars    == <<job_df, resume_text, top_n, similarity_scores, top_indices,
                 matched_roles, rpc>>
vars        == <<sessionVars, extractVars, rankVars>>

(***************************************************************************)
(* Bounds of the model.                                                    *)
(***************************************************************************)
MaxQuestions == 2      \* longest question list a Start click assembles
MaxAnswerLen == 1      \* longest answer typed into the text area
MaxLines     == 3      \* most lines of a resume text
MaxRows      == 3      \* most rows of job_df
MaxTopN      == 3      \* largest top_n
MaxScore     == 2      \* number of distinct positive similarity levels

(***************************************************************************)
(* Python values and str methods.                                          *)
(***************************************************************************)
None == <<"None">>

\* bool(x) for x a str or None
Truthy(x) == x # None /\ x # <<>>

Whitespace == {" ", "\t", "\n", "\r"}

RECURSIVE LStrip(_)
LStrip(s) == IF s # <<>> /\ Head(s) \in Whitespace THEN LStrip(Tail(s)) ELSE s

RECURSIVE RStrip(_)
RStrip(s) ==
    IF s # <<>> /\ s[Len(s)] \in Whitespace
    THEN RStrip(SubSeq(s, 1, Len(s) - 1))
    ELSE s

\* a bug that forgets to strip
StripNot(s) == s

\* str.strip()
Strip(s) == RStrip(LStrip(s))

\* list.pop() instead of list.pop(0)
PopLast(list) ==
    [item |-> list[Len(list)], rest |-> SubSeq(list, 1, Len(list) - 1)]

\* list.pop(0): the item removed and the list left
Pop0(list) == [item |-> Head(list), rest |-> Tail(list)]

\* the calls of the two functions not in progress
ExtractIdle ==
    /\ text = <<>> /\ lines = <<>> /\ idx = 0 /\ current_section = None
    /\ extracted_info = <<>> /\ summary = [kind |-> "none"] /\ epc = "idle"

RankIdle ==
    /\ job_df = [has_columns |-> FALSE, rows |-> <<>>] /\ resume_text = {} /\ top_n = 0
    /\ similarity_scores = <<>> /\ top_indices = <<>> /\ matched_roles = <<>>
    /\ rpc = "idle"

(***************************************************************************)
(* Interview session: the two button handlers of main().                   *)
(***************************************************************************)
Roles         == {<<"E">>, <<"D">>}
RoleChoices   == Roles \cup {None}     \* None: the selectbox has no options
QuestionTexts == {<<>>, <<"p">>, <<"q">>}
AnswerChars   == {" ", "a"}

SeqsUpTo(S, n) == UNION {[1..k -> S] : k \in 0..n}

\* the lists line 207 can assemble: the question bank of the level followed
\* by the descriptions recorded for the role
QuestionLists == SeqsUpTo(QuestionTexts, MaxQuestions)
Answers       == SeqsUpTo(AnswerChars, MaxAnswerLen)

SessionInit ==
    /\ role = None
    /\ conversation = <<>>
    /\ transcripts = <<>>
    /\ current_question = None
    /\ lastOp = "none"
    /\ selected_role = None
    /\ asked = <<>>
    /\ answer = <<>>

\* "Start Interview" clicked with the selectbox at sel and line 207 yielding qs
StartInterview(sel, qs) ==
    /\ lastOp' = "start"
    /\ selected_role' = sel
    /\ answer' = answer
    /\ IF Truthy(sel)
       THEN /\ role' = sel
            /\ asked' = qs
            /\ IF qs # <<>>
               THEN /\ current_question' = Pop0(qs).item
                    /\ transcripts' = Pop0(qs).rest
                    /\ conversation' = <<<<"Interviewer", Pop0(qs).item>>>>
               ELSE /\ current_question' = current_question
                    /\ transcripts' = qs
                    /\ conversation' = <<>>
       ELSE UNCHANGED <<role, asked, current_question, transcripts, conversation>>

\* "Submit Response" clicked with the text area holding ans; the button is
\* only rendered inside the block guarded by line 212
SubmitResponse(ans) ==
    /\ lastOp' = "submit"
    /\ answer' = ans
    /\ UNCHANGED <<selected_role, role, asked>>
    /\ IF Truthy(current_question) /\ Strip(ans) # <<>>
       THEN IF transcripts # <<>>
            THEN /\ current_question' = Pop0(transcripts).item
                 /\ transcripts' = Pop0(transcripts).rest
                 /\ conversation' = conversation
                        \o <<<<"Candidate", ans>>,
                             <<"Interviewer", Pop0(transcripts).item>>>>
            ELSE /\ current_question' = None
                 /\ transcripts' = transcripts
                 /\ conversation' = Append(conversation, <<"Candidate", ans>>)
       ELSE UNCHANGED <<current_question, transcripts, conversation>>

Init == SessionInit /\ ExtractIdle /\ RankIdle

StartStep ==
    \E sel \in RoleChoices, qs \in QuestionLists :
        StartInterview(sel, qs) /\ UNCHANGED <<extractVars, rankVars>>

SubmitStep ==
    \E ans \in Answers :
        SubmitResponse(ans) /\ UNCHANGED <<extractVars, rankVars>>

Next == StartStep \/ SubmitStep

Spec == Init /\ [][Next]_vars

(***************************************************************************)
(* extract_resume_details.                                                 *)
(***************************************************************************)
UpperCase == <<"A", "B", "C", "D", "E", "F", "G", "H", "I", "J", "K", "L", "M", "N", "O", "P", "Q", "R", "S", "T", "U", "V", "W", "X", "Y", "Z">>
LowerCase == <<"a", "b", "c", "d", "e", "f", "g", "h", "i", "j", "k", "l", "m", "n", "o", "p", "q", "r", "s", "t", "u", "v", "w", "x", "y", "z">>

\* the lower-case letter of each upper-case letter
ToLower ==
    [c \in {UpperCase[i] : i \in 1..Len(UpperCase)} |->
        LowerCase[CHOOSE i \in 1..Len(UpperCase) : UpperCase[i] = c]]

\* str.lower() on one character
LowerChar(c) == IF c \in DOMAIN ToLower THEN ToLower[c] ELSE c

\* str.lower()
Lower(s) == [i \in 1..Len(s) |-> LowerChar(s[i])]

\* str.startswith(prefix)
StartsWith(s, prefix) ==
    Len(prefix) <= Len(s) /\ SubSeq(s, 1, Len(prefix)) = prefix

\* str.split(sep) for a one-character sep
RECURSIVE Split(_, _)
Split(s, sep) ==
    IF \E i \in 1..Len(s) : s[i] = sep
    THEN LET i == CHOOSE j \in 1..Len(s) :
                     s[j] = sep /\ \A k \in 1..(j - 1) : s[k] # sep
         IN <<SubSeq(s, 1, i - 1)>> \o Split(SubSeq(s, i + 1, Len(s)), sep)
    ELSE <<s>>

\* sep.join(list)
RECURSIVE Join(_, _)
Join(list, sep) ==
    IF list = <<>> THEN <<>>
    ELSE IF Len(list) = 1 THEN list[1]
    ELSE list[1] \o sep \o Join(Tail(list), sep)

Skills == <<"S", "k", "i", "l", "l", "s">>
Achievements == <<"A", "c", "h", "i", "e", "v", "e", "m", "e", "n", "t", "s">>
Experience == <<"E", "x", "p", "e", "r", "i", "e", "n", "c", "e">>
Projects == <<"P", "r", "o", "j", "e", "c", "t", "s">>

\* the keys of summary_sections, in declaration order
SectionOrder == <<Skills, Achievements, Experience, Projects>>
Sections     == {SectionOrder[i] : i \in 1..Len(SectionOrder)}

\* summary_sections
summary_sections ==
       Skills :> <<<<"S", "k", "i", "l", "l", "s">>, <<"T", "e", "c", "h", "n", "i", "c", "a", "l", " ", "S", "k", "i", "l", "l", "s">>, <<"C", "o", "r", "e", " ", "C", "o", "m", "p", "e", "t", "e", "n", "c", "i", "e", "s">>>>
    @@ Achievements :> <<<<"A", "c", "h", "i", "e", "v", "e", "m", "e", "n", "t", "s">>, <<"A", "c", "c", "o", "m", "p", "l", "i", "s", "h", "m", "e", "n", "t", "s">>, <<"K", "e", "y", " ", "H", "i", "g", "h", "l", "i", "g", "h", "t", "s">>>>
    @@ Experience :> <<<<"E", "x", "p", "e", "r", "i", "e", "n", "c", "e">>, <<"W", "o", "r", "k", " ", "E", "x", "p", "e", "r", "i", "e", "n", "c", "e">>, <<"P", "r", "o", "f", "e", "s", "s", "i", "o", "n", "a", "l", " ", "E", "x", "p", "e", "r", "i", "e", "n", "c", "e">>>>
    @@ Projects :> <<<<"P", "r", "o", "j", "e", "c", "t", "s">>, <<"K", "e", "y", " ", "P", "r", "o", "j", "e", "c", "t", "s">>, <<"A", "c", "a", "d", "e", "m", "i", "c", " ", "P", "r", "o", "j", "e", "c", "t", "s">>>>

\* any(line.lower().startswith(keyword.lower()) for keyword in keywords)
AnyKeyword(line, keywords) ==
    \E k \in 1..Len(keywords) : StartsWith(Lower(line), Lower(keywords[k]))

\* the section at which the inner for loop breaks, None when it runs to its else
MatchedSection(line) ==
    IF \E i \in 1..Len(SectionOrder) : AnyKeyword(line, summary_sections[SectionOrder[i]])
    THEN SectionOrder[CHOOSE i \in 1..Len(SectionOrder) :
            /\ AnyKeyword(line, summary_sections[SectionOrder[i]])
            /\ \A j \in 1..(i - 1) :
                   ~AnyKeyword(line, summary_sections[SectionOrder[j]])]
    ELSE None

\* a loop body that also files the header line under its section
ScanLineKeepsHeader(cur, info, rawline) ==
    LET line == Strip(rawline)
        m    == MatchedSection(line)
        c    == IF m # None THEN m ELSE cur
    IN  IF Truthy(c)
        THEN [current_section |-> c,
              extracted_info |-> [info EXCEPT ![c] = Append(@, line)]]
        ELSE [current_section |-> c, extracted_info |-> info]

\* one iteration of the for loop over lines
ScanLine(cur, info, rawline) ==
    LET line == Strip(rawline)
        m    == MatchedSection(line)
    IN  IF m # None
        THEN [current_section |-> m, extracted_info |-> info]
        ELSE IF Truthy(cur)
             THEN [current_section |-> cur,
                   extracted_info |-> [info EXCEPT ![cur] = Append(@, line)]]
             ELSE [current_section |-> cur, extracted_info |-> info]

\* formatted_output
FormattedOutput(info) ==
    [key \in {k \in DOMAIN info : info[k] # <<>>} |-> Join(info[key], <<"\n">>)]

NoDataMessage ==
    <<"N", "o", " ", "s", "t", "r", "u", "c", "t", "u", "r", "e", "d", " ", "d", "a", "t", "a", " ", "f", "o", "u", "n", "d", ".", " ", "P", "l", "e", "a", "s", "e", " ", "l", "a", "b", "e", "l", " ", "r", "e", "s", "u", "m", "e", " ", "s", "e", "c", "t", "i", "o", "n", "s", " ", "c", "l", "e", "a", "r", "l", "y", ".">>

\* the return statement
ReturnValue(formatted_output) ==
    IF DOMAIN formatted_output # {}
    THEN [kind |-> "dict", value |-> formatted_output]
    ELSE [kind |-> "str", value |-> NoDataMessage]

\* resume lines the model draws texts from
LinePool ==
    {<<"S", "k", "i", "l", "l", "s">>,
     <<" ", "S", "K", "I", "L", "L", "S", ":", " ">>,
     <<"K", "e", "y", " ", "P", "r", "o", "j", "e", "c", "t", "s">>,
     <<"E", "x", "p", "e", "r", "i", "e", "n", "c", "e">>,
     <<"P", "y", "t", "h", "o", "n", " ">>,
     <<"M", "y", " ", "S", "k", "i", "l", "l", "s">>,
     <<>>,
     <<" ">>}

ResumeTexts == {Join(ls, <<"\n">>) : ls \in SeqsUpTo(LinePool, MaxLines)}

ExtractCall(t) ==
    /\ text = t
    /\ lines = <<>> /\ idx = 0 /\ current_section = None
    /\ extracted_info = <<>> /\ summary = [kind |-> "none"] /\ epc = "call"

\* lines 31-39
ExtractSplit ==
    /\ epc = "call"
    /\ lines' = Split(text, "\n")
    /\ extracted_info' = [key \in Sections |-> <<>>]
    /\ current_section' = None
    /\ idx' = 1
    /\ epc' = "scan"
    /\ UNCHANGED <<text, summary, sessionVars, rankVars>>

\* lines 40-48, one line of the text
ExtractLine ==
    /\ epc = "scan"
    /\ idx <= Len(lines)
    /\ current_section' = ScanLine(current_section, extracted_info, lines[idx]).current_section
    /\ extracted_info' = ScanLine(current_section, extracted_info, lines[idx]).extracted_info
    /\ idx' = idx + 1
    /\ UNCHANGED <<text, lines, summary, epc, sessionVars, rankVars>>

\* lines 49-50
ExtractReturn ==
    /\ epc = "scan"
    /\ idx > Len(lines)
    /\ summary' = ReturnValue(FormattedOutput(extracted_info))
    /\ epc' = "done"
    /\ UNCHANGED <<text, lines, idx, current_section, extracted_info,
                   sessionVars, rankVars>>

InitExtract == SessionInit /\ RankIdle /\ \E t \in ResumeTexts : ExtractCall(t)

NextExtract == ExtractSplit \/ ExtractLine \/ ExtractReturn

SpecExtract == InitExtract /\ [][NextExtract]_vars

(***************************************************************************)
(* match_resume_to_roles.                                                  *)
(*                                                                         *)
(* A description and the resume are held as the set of terms the           *)
(* vectorizer keeps of them (lower-cased tokens of two or more characters  *)
(* that are no English stop word); NaN is a missing cell.  The scores      *)
(* TfidfVectorizer and cosine_similarity produce are real numbers; they    *)
(* are modelled by their order: 0 for a description that shares no term    *)
(* with the resume (the dot product is 0), and one of the levels           *)
(* 1..MaxScore otherwise.  fit_transform raises ValueError ("empty         *)
(* vocabulary; perhaps the documents only contain stop words") when no     *)
(* document of the corpus keeps a term.                                    *)
(***************************************************************************)
NaN    == "NaN"
Titles == {"A", "B"}
Terms  == {"x"}

\* a job_description_text cell: missing, or a text with its terms
DescriptionCells ==
    {[isna |-> TRUE, terms |-> {}]} \cup [isna : {FALSE}, terms : SUBSET Terms]

Rows == [job_title : Titles \cup {NaN}, job_description_text : DescriptionCells]

DataFrames == [has_columns : BOOLEAN, rows : SeqsUpTo(Rows, MaxRows)]

\* job_df.empty or a required column is missing (line 81)
NoData(df) == df.rows = <<>> \/ ~df.has_columns

\* job_df["job_description_text"].fillna("").tolist()
Descriptions(df) ==
    [i \in 1..Len(df.rows) |->
        IF df.rows[i].job_description_text.isna THEN {}
        ELSE df.rows[i].job_description_text.terms]

\* job_df["job_title"].fillna("Unknown Role").tolist()
RoleTitles(df) ==
    [i \in 1..Len(df.rows) |->
        IF df.rows[i].job_title = NaN THEN "Unknown Role" ELSE df.rows[i].job_title]

\* the vocabulary fit_transform learns from descriptions + [resume_text]
Vocabulary(descriptions, resume) ==
    resume \cup UNION {descriptions[i] : i \in 1..Len(descriptions)}

\* the score vectors cosine_similarity can return
SimilarityScores(descriptions, resume) ==
    {sc \in [1..Len(descriptions) -> 0..MaxScore] :
        \A i \in 1..Len(descriptions) :
            sc[i] = 0 <=> descriptions[i] \cap resume = {}}

\* the results of ndarray.argsort(): the default sort kind is not stable, so
\* any order of the indices that sorts the scores ascending
Argsort(scores) ==
    {p \in [1..Len(scores) -> 1..Len(scores)] :
        /\ \A i, j \in 1..Len(scores) : i # j => p[i] # p[j]
        /\ \A i \in 1..(Len(scores) - 1) : scores[p[i]] <= scores[p[i + 1]]}

\* seq[-n:]
LastN(seq, n) ==
    IF n >= Len(seq) THEN seq ELSE SubSeq(seq, Len(seq) - n + 1, Len(seq))

\* seq[::-1]
Reversed(seq) == [i \in 1..Len(seq) |-> seq[Len(seq) + 1 - i]]

\* similarity_scores.argsort()[-top_n:][::-1] for one result of argsort
TopIndices(sorted, n) == Reversed(LastN(sorted, n))

\* [roles[i] for i in top_indices]
MatchedRoles(roles, indices) == [k \in 1..Len(indices) |-> roles[indices[k]]]

RankCall(df, resume, n) ==
    /\ job_df = df /\ resume_text = resume /\ top_n = n
    /\ similarity_scores = <<>> /\ top_indices = <<>> /\ matched_roles = <<>>
    /\ rpc = "call"

\* lines 81-82
RankNoData ==
    /\ rpc = "call"
    /\ NoData(job_df)
    /\ matched_roles' = <<>>
    /\ rpc' = "done"
    /\ UNCHANGED <<job_df, resume_text, top_n, similarity_scores, top_indices,
                   sessionVars, extractVars>>

\* lines 83-88, the vectorizer finding no term
RankRaise ==
    /\ rpc = "call"
    /\ ~NoData(job_df)
    /\ Vocabulary(Descriptions(job_df), resume_text) = {}
    /\ rpc' = "raised"
    /\ UNCHANGED <<job_df, resume_text, top_n, similarity_scores, top_indices,
                   matched_roles, sessionVars, extractVars>>

\* lines 83-88
RankScore ==
    /\ rpc = "call"
    /\ ~NoData(job_df)
    /\ Vocabulary(Descriptions(job_df), resume_text) # {}
    /\ similarity_scores' \in SimilarityScores(Descriptions(job_df), resume_text)
    /\ rpc' = "scored"
    /\ UNCHANGED <<job_df, resume_text, top_n, top_indices, matched_roles,
                   sessionVars, extractVars>>

\* lines 89-91
RankSelect ==
    /\ rpc = "scored"
    /\ \E sorted \in Argsort(similarity_scores) :
           /\ top_indices' = TopIndices(sorted, top_n)
           /\ matched_roles' = MatchedRoles(RoleTitles(job_df), TopIndices(sorted, top_n))
    /\ rpc' = "done"
    /\ UNCHANGED <<job_df, resume_text, top_n, similarity_scores,
                   sessionVars, extractVars>>

InitRank ==
    /\ SessionInit /\ ExtractIdle
    /\ \E df \in DataFrames, resume \in SUBSET Terms, n \in 1..MaxTopN :
           RankCall(df, resume, n)

NextRank == RankNoData \/ RankRaise \/ RankScore \/ RankSelect

SpecRank == InitRank /\ [][NextRank]_vars

(***************************************************************************)
(* Properties of match_resume_to_roles.                                    *)
(***************************************************************************)
Min(a, b) == IF a <= b THEN a ELSE b

Selected == {top_indices[k] : k \in 1..Len(top_indices)}

\* C7: the result is in descending score order, entries of equal score are
\* in corpus order, and among equal scores at the cut the earlier entries
\* are the ones selected.
C7_DescendingStableTies ==
    rpc = "done" /\ ~NoData(job_df) =>
        /\ \A a, b \in 1..Len(top_indices) :
               a < b => similarity_scores[top_indices[a]] >= similarity_scores[top_indices[b]]
        /\ \A a, b \in 1..Len(top_indices) :
               (a < b /\ similarity_scores[top_indices[a]] = similarity_scores[top_indices[b]])
                   => top_indices[a] < top_indices[b]
        /\ \A i \in Selected, j \in (1..Len(job_df.rows)) \ Selected :
               similarity_scores[i] = similarity_scores[j] => i < j

\* C8: a call on a corpus with both columns returns min(top_n, rows) titles,
\* those of that many distinct rows, and no title for an empty corpus.
C8_ReturnsMinTopNRows ==
    (rpc \in {"done", "raised"} /\ job_df.has_columns) =>
        /\ rpc = "done"
        /\ Len(matched_roles) = Min(top_n, Len(job_df.rows))
        /\ job_df.rows # <<>> =>
              /\ Len(top_indices) = Len(matched_roles)
              /\ Cardinality(Selected) = Len(matched_roles)
              /\ \A k \in 1..Len(matched_roles) :
                     matched_roles[k] = RoleTitles(job_df)[top_indices[k]]

(***************************************************************************)
(* Properties of extract_resume_details.                                   *)
(***************************************************************************)
IsHeaderLine(l) == MatchedSection(Strip(l)) # None

\* for each line, the section it is a header of, or None
HeaderOf == [i \in 1..Len(lines) |-> MatchedSection(Strip(lines[i]))]

\* the stripped lines among the first n that are no header and whose nearest
\* header line above is one of section s, in input order; hdr is HeaderOf
LinesUnder(s, n, hdr) ==
    LET Belongs(i) ==
            /\ hdr[i] = None
            /\ \E j \in 1..(i - 1) :
                   /\ hdr[j] = s
                   /\ \A k \in (j + 1)..(i - 1) : hdr[k] = None
        sel == SelectSeq([i \in 1..n |-> i], Belongs)
    IN  [m \in 1..Len(sel) |-> Strip(lines[sel[m]])]

\* the sections whose accumulated body holds a non-empty line
SectionsWithText ==
    {s \in Sections : \E i \in 1..Len(extracted_info[s]) : extracted_info[s][i] # <<>>}

\* C9: every key of a returned map is a section whose body holds a non-empty
\* line, and the no-data message is returned when no section has one.
C9_OnlySectionsWithText ==
    epc = "done" =>
        /\ summary.kind = "dict" => DOMAIN summary.value \subseteq SectionsWithText
        /\ SectionsWithText = {} => summary.kind = "str"

\* C10: the body of each section is the stripped non-header lines between a
\* header of that section and the next header of any section, in input
\* order; the returned text of a section is that body joined by newlines.
C10_BodyIsLinesUnderHeader ==
    LET hdr == HeaderOf
    IN  /\ epc \in {"scan", "done"} =>
              \A s \in Sections : extracted_info[s] = LinesUnder(s, idx - 1, hdr)
        /\ (epc = "done" /\ summary.kind = "dict") =>
              \A k \in DOMAIN summary.value :
                  summary.value[k] = Join(LinesUnder(k, Len(lines), hdr), <<"\n">>)

\* a text with content above its first header and, under a header, a line
\* that strip() shortened
C10_Witness ==
    /\ epc = "done"
    /\ Strip(lines[1]) # <<>> /\ ~IsHeaderLine(lines[1])
    /\ \E s \in Sections, i \in 2..Len(lines) :
           /\ ~IsHeaderLine(lines[i])
           /\ Strip(lines[i]) # <<>> /\ Strip(lines[i]) # lines[i]
           /\ extracted_info[s] = <<Strip(lines[i])>>

(***************************************************************************)
(* Properties of the interview session.                                    *)
(***************************************************************************)
IsBlank(s) == \A i \in 1..Len(s) : s[i] \in Whitespace

FromInterviewer(e) == e[1] = "Interviewer"
FromCandidate(e)   == e[1] = "Candidate"

\* the texts of the Interviewer entries of a log, in log order
InterviewerTexts(log) ==
    [i \in 1..Len(SelectSeq(log, FromInterviewer)) |->
        SelectSeq(log, FromInterviewer)[i][2]]

Alternates(log) ==
    \A i \in 1..Len(log) :
        log[i][1] = IF i % 2 = 1 THEN "Interviewer" ELSE "Candidate"

Completed == transcripts = <<>> /\ ~Truthy(current_question)

C2_RejectedSubmitUnchanged ==
    [][(lastOp' = "submit" /\ (IsBlank(answer') \/ ~Truthy(current_question)))
          => UNCHANGED <<transcripts, conversation, current_question, role>>]_vars

\* a whitespace-only answer was submitted while a question was pending in
\* the middle of a session
C2_Witness ==
    /\ lastOp = "submit"
    /\ answer # <<>> /\ IsBlank(answer)
    /\ Truthy(current_question)
    /\ Len(conversation) >= 3

C6_QuestionOrder == InterviewerTexts(conversation) \o transcripts = asked

\* a list with a repeated question has been asked to its end
C6_Witness ==
    /\ Len(asked) >= 2
    /\ asked[1] = asked[2]
    /\ Truthy(asked[1])
    /\ Len(InterviewerTexts(conversation)) = Len(asked)

====
